---- MODULE Spec2Model ----
(***************************************************************************)
(* Model of bin/kervis-workflow.mjs: the `init` scaffolding script.        *)
(*                                                                         *)
(* The filesystem is one function from absolute paths (sequences of path   *)
(* segments) to nodes.  A node is "dir", "other" (symbolic link, FIFO,     *)
(* socket, device: what Dirent reports as neither file nor directory) or   *)
(* the content of a regular file ("f1", "f2").  The installation root is   *)
(* /pkg, the script lives in /pkg/bin, and the working directory is        *)
(* /proj or a directory of the installation itself.                        *)
(*                                                                         *)
(* Filesystem calls fail only for reasons visible in that state (a path    *)
(* component of the wrong kind, a missing parent, a path longer than       *)
(* MaxPathLen); permission and media errors are outside the model.  A      *)
(* failing call throws, nothing catches it, and the process ends with      *)
(* exit code 1.                                                            *)
(***************************************************************************)
EXTENDS Integers, Sequences, FiniteSets, TLC

\* Longest path (in segments) the filesystem accepts: PATH_MAX.
MaxPathLen == 5
\* Number of successive invocations of the script that are followed.
MaxRuns == 2

VARIABLES
  fs,        \* the filesystem: [existing paths -> node]
  cwd,       \* process.cwd()
  args,      \* process.argv.slice(2)
  pc,        \* the statement the script is about to execute
  stack,     \* activation records of copyDir, innermost last
  exitCode,  \* the process exit code once pc = "exit" (-1 while running)
  out,       \* lines written to stdout/stderr by this run, in order
  run,       \* index of the current invocation
  fsStart    \* the filesystem when the current invocation started

vars == <<fs, cwd, args, pc, stack, exitCode, out, run, fsStart>>

----------------------------------------------------------------------------
(* Paths                                                                   *)

Contents == {"f1", "f2"}

IsFileNode(n) == n \in Contents

Parent(p) == SubSeq(p, 1, Len(p) - 1)

IsPrefix(p, q) == Len(p) <= Len(q) /\ SubSeq(q, 1, Len(p)) = p

Prefixes(p) == {SubSeq(p, 1, n) : n \in 0..Len(p)}

\* path.resolve(base, ...segs) / path.join(base, name): ".." drops a segment.
RECURSIVE Resolve(_, _)
Resolve(base, segs) ==
  IF segs = <<>> THEN base
  ELSE IF Head(segs) = ".." THEN Resolve(Parent(base), Tail(segs))
  ELSE Resolve(Append(base, Head(segs)), Tail(segs))

\* path.dirname(fileURLToPath(import.meta.url))
Dirname == <<"pkg", "bin">>

templateAgents == Resolve(Dirname, <<"..", "templates", "AGENTS.md">>)
targetAgents == Resolve(cwd, <<"AGENTS.md">>)

skillsSourceDir == Resolve(Dirname, <<"..", "skills">>)
skillsTargetDir == Resolve(cwd, <<"skills">>)

----------------------------------------------------------------------------
(* Arguments                                                               *)

Includes(s, x) == \E i \in 1..Len(s) : s[i] = x

cmd == IF Len(args) = 0 THEN "init" ELSE args[1]

force_always == TRUE
force == Includes(args, "--force")

withSkills == Includes(args, "--with-skills")

----------------------------------------------------------------------------
(* node:fs                                                                 *)

existsSync(f, p) == p \in DOMAIN f

\* The tree below p, by path relative to p (<<>> is p itself).
Subtree(f, p) ==
  [r \in {SubSeq(q, Len(p) + 1, Len(q)) : q \in {x \in DOMAIN f : IsPrefix(p, x)}}
     |-> f[p \o r]]

\* fs.rmSync(p, {recursive: true, force: true})
rmSync(f, p) == [q \in {x \in DOMAIN f : ~IsPrefix(p, x)} |-> f[q]]

\* fs.mkdirSync(p, {recursive: true})
mkdirOk(f, p) ==
  /\ Len(p) <= MaxPathLen
  /\ \A q \in Prefixes(p) : q \in DOMAIN f => f[q] = "dir"

mkdirSync(f, p) ==
  [q \in DOMAIN f \cup Prefixes(p) |-> IF q \in DOMAIN f THEN f[q] ELSE "dir"]

\* The type a Dirent reports for a node.
DirentKind(n) ==
  IF n = "dir" THEN "dir" ELSE IF IsFileNode(n) THEN "file" ELSE "other"

\* fs.readdirSync(p, {withFileTypes: true}): the set of <<name, type>>.
readdirOk(f, p) == p \in DOMAIN f /\ f[p] = "dir"

readdirSync(f, p) ==
  {<<q[Len(q)], DirentKind(f[q])>> :
     q \in {x \in DOMAIN f : Len(x) = Len(p) + 1 /\ IsPrefix(p, x)}}

\* fs.copyFileSync(src, dst)
copyFileOk(f, src, dst) ==
  /\ src \in DOMAIN f /\ IsFileNode(f[src])
  /\ Len(dst) <= MaxPathLen
  /\ Parent(dst) \in DOMAIN f /\ f[Parent(dst)] = "dir"
  /\ dst \in DOMAIN f => IsFileNode(f[dst])

\* Copying a file onto itself is left unchanged by some Node versions and
\* rejected by others: a call with src = dst may do either.
copyFileMayThrow(f, src, dst) == ~copyFileOk(f, src, dst) \/ src = dst

copyFileSync_keep(f, src, dst) ==
  [q \in DOMAIN f \cup {dst} |-> IF q \in DOMAIN f THEN f[q] ELSE f[src]]
copyFileSync(f, src, dst) ==
  [q \in DOMAIN f \cup {dst} |-> IF q = dst THEN f[src] ELSE f[q]]

----------------------------------------------------------------------------
(* Initial filesystems                                                     *)

NoTree == [r \in {} |-> "dir"]

\* An entry `name` of a directory: absent, a leaf, an empty directory, or a
\* directory holding one leaf `child`.
EntryOpts(name, leaves, child) ==
  {NoTree}
    \cup {(<<name>> :> k) : k \in leaves}
    \cup {(<<name>> :> "dir")}
    \cup {(<<name>> :> "dir") @@ (<<name, child>> :> k) : k \in leaves}

\* The bundled skills tree: absent, a regular file, or a directory.
SourceDirTrees ==
  {(<<>> :> "dir") @@ a @@ b :
     a \in EntryOpts("a", {"f1", "other"}, "one.md"),
     b \in {NoTree, (<<"b">> :> "f1")}}

SourceTrees == {NoTree, (<<>> :> "f1")} \cup SourceDirTrees

\* What the caller already has at ./skills.
TargetTrees ==
  {NoTree, (<<>> :> "f2")}
    \cup {(<<>> :> "dir") @@ a @@ c :
            a \in {NoTree, (<<"a">> :> "f2")},
            c \in {NoTree, (<<"c">> :> "dir") @@ (<<"c", "old.md">> :> "f2")}}

Graft(tree, at) == [q \in {at \o r : r \in DOMAIN tree} |-> tree[SubSeq(q, Len(at) + 1, Len(q))]]

FileAt(p, node) == IF node = "absent" THEN NoTree ELSE (p :> node)

BaseDirs ==
  (<<>> :> "dir") @@ (<<"pkg">> :> "dir") @@ (<<"pkg", "bin">> :> "dir")
    @@ (<<"pkg", "templates">> :> "dir") @@ (<<"proj">> :> "dir")

Cwds == {<<"proj">>, <<"pkg">>, <<"pkg", "templates">>, <<"pkg", "skills">>}

Flags == {<<>>, <<"--force">>, <<"--with-skills">>, <<"--force", "--with-skills">>,
          <<"--with-skills", "--force">>}

ArgVectors ==
  {<<>>} \cup {<<t>> \o r : t \in {"init", "help", "--force", "--with-skills"}, r \in Flags}

Init ==
  /\ cwd \in Cwds
  /\ args \in ArgVectors
  /\ \E tmpl \in {"absent", "f1"}, cfg \in {"absent", "f2"},
        st \in SourceTrees, tt \in TargetTrees :
       \* the working directory exists
       /\ cwd = skillsSourceDir => st \in SourceDirTrees
       \* ./skills is the bundled tree itself, ./AGENTS.md the template itself
       /\ Resolve(cwd, <<"skills">>) = skillsSourceDir => tt = NoTree
       /\ Resolve(cwd, <<"AGENTS.md">>) = templateAgents => cfg = "absent"
       /\ fs = FileAt(templateAgents, tmpl)
                 @@ FileAt(Resolve(cwd, <<"AGENTS.md">>), cfg)
                 @@ Graft(tt, Resolve(cwd, <<"skills">>))
                 @@ Graft(st, skillsSourceDir)
                 @@ BaseDirs
  /\ pc = "l29"
  /\ stack = <<>>
  /\ exitCode = -1
  /\ out = <<>>
  /\ run = 1
  /\ fsStart = fs

----------------------------------------------------------------------------
(* The script                                                              *)

Goto(l) ==
  /\ pc' = l
  /\ UNCHANGED <<fs, cwd, args, stack, exitCode, out, run, fsStart>>

\* console.log / console.error followed by process.exit(code)
Exit(msg, code) ==
  /\ pc' = "exit"
  /\ exitCode' = code
  /\ out' = Append(out, msg)
  /\ stack' = <<>>
  /\ UNCHANGED <<cwd, args, run, fsStart>>

\* An exception nothing catches: the trace goes to stderr, exit code 1.
Throw(f) ==
  /\ fs' = f
  /\ Exit("Uncaught", 1)

\* line 29
CheckCmd ==
  /\ pc = "l29"
  /\ IF cmd # "init"
       THEN Exit("Usage: kervisworkflow init [--force] [--with-skills]", 1)
            /\ UNCHANGED fs
       ELSE Goto("l34")

\* line 34
TemplateMissing == ~existsSync(fs, templateAgents)

CheckTemplate ==
  /\ pc = "l34"
  /\ IF TemplateMissing
       THEN Exit("Template not found", 1) /\ UNCHANGED fs
       ELSE Goto("l39")

\* line 39
ConfigBlocked_never == FALSE
ConfigBlocked == existsSync(fs, targetAgents) /\ ~force

CheckTarget ==
  /\ pc = "l39"
  /\ IF ConfigBlocked
       THEN Exit("AGENTS.md already exists. Use --force to overwrite.", 1)
            /\ UNCHANGED fs
       ELSE Goto("l44")

\* lines 44-45, and the fall through the end of the script without skills
CopyAgents ==
  /\ pc = "l44"
  /\ \/ /\ copyFileOk(fs, templateAgents, targetAgents)
        /\ fs' = copyFileSync(fs, templateAgents, targetAgents)
        /\ out' = Append(out, "Created AGENTS.md")
        /\ pc' = "l47"
        /\ UNCHANGED <<cwd, args, stack, exitCode, run, fsStart>>
     \/ /\ copyFileMayThrow(fs, templateAgents, targetAgents)
        /\ Throw(fs)

\* line 47 (and line 63: the script ends, exit code 0)
CheckWithSkills ==
  /\ pc = "l47"
  /\ IF withSkills
       THEN Goto("l48")
       ELSE /\ pc' = "exit"
            /\ exitCode' = 0
            /\ UNCHANGED <<fs, cwd, args, stack, out, run, fsStart>>

\* line 48
SkillsSourceMissing_never == FALSE
SkillsSourceMissing == ~existsSync(fs, skillsSourceDir)

CheckSkillsSource ==
  /\ pc = "l48"
  /\ IF SkillsSourceMissing
       THEN Exit("Skills dir not found", 1) /\ UNCHANGED fs
       ELSE Goto("l53")

\* lines 53-59
SkipSkills_never == FALSE
SkipSkills == ~force

CheckSkillsTarget ==
  /\ pc = "l53"
  /\ IF existsSync(fs, skillsTargetDir)
       THEN IF SkipSkills
              THEN Exit("Skipped skills/ (already exists). Use --force to overwrite.",
                        0)
                   /\ UNCHANGED fs
              ELSE /\ fs' = rmSync(fs, skillsTargetDir)
                   /\ pc' = "l61"
                   /\ UNCHANGED <<cwd, args, stack, exitCode, out, run, fsStart>>
       ELSE Goto("l61")

\* copyDir(srcDir, destDir), lines 19-21: create the destination, list the
\* source, and start the loop over the listing.
Call(srcDir, destDir, callers) ==
  IF ~mkdirOk(fs, destDir) THEN Throw(fs)
  ELSE IF ~readdirOk(mkdirSync(fs, destDir), srcDir)
         THEN Throw(mkdirSync(fs, destDir))
  ELSE /\ fs' = mkdirSync(fs, destDir)
       /\ stack' = Append(callers,
                     [srcDir |-> srcDir, destDir |-> destDir,
                      todo |-> readdirSync(mkdirSync(fs, destDir), srcDir)])
       /\ pc' = "copyDir"
       /\ UNCHANGED <<cwd, args, exitCode, out, run, fsStart>>

\* line 61
CallCopyDir ==
  /\ pc = "l61"
  /\ Call(skillsSourceDir, skillsTargetDir, <<>>)

Top == stack[Len(stack)]

Rest(e) == [stack EXCEPT ![Len(stack)].todo = @ \ {e}]

\* lines 21-26: one iteration of the loop, over any entry not yet visited
\* (readdir's order is the filesystem's).
CopyDirEntry ==
  /\ pc = "copyDir"
  /\ \E e \in Top.todo :
       LET src == Resolve(Top.srcDir, <<e[1]>>)
           dest == Resolve(Top.destDir, <<e[1]>>)
       IN CASE e[2] = "dir" -> Call(src, dest, Rest(e))
            [] e[2] = "file" ->
                 \/ /\ copyFileOk(fs, src, dest)
                    /\ fs' = copyFileSync(fs, src, dest)
                    /\ stack' = Rest(e)
                    /\ UNCHANGED <<cwd, args, pc, exitCode, out, run, fsStart>>
                 \/ /\ copyFileMayThrow(fs, src, dest)
                    /\ Throw(fs)
            [] OTHER ->
                 /\ stack' = Rest(e)
                 /\ UNCHANGED <<fs, cwd, args, pc, exitCode, out, run, fsStart>>

\* line 27: the loop is over, copyDir returns to its caller
CopyDirReturn ==
  /\ pc = "copyDir"
  /\ Top.todo = {}
  /\ stack' = SubSeq(stack, 1, Len(stack) - 1)
  /\ pc' = IF Len(stack) = 1 THEN "l62" ELSE "copyDir"
  /\ UNCHANGED <<fs, cwd, args, exitCode, out, run, fsStart>>

\* lines 62-63
ReportSkills ==
  /\ pc = "l62"
  /\ pc' = "exit"
  /\ exitCode' = 0
  /\ out' = Append(out, "Created skills/")
  /\ UNCHANGED <<fs, cwd, args, stack, run, fsStart>>

\* The same command line is run again in the same working directory.
Rerun ==
  /\ pc = "exit"
  /\ run < MaxRuns
  /\ run' = run + 1
  /\ fsStart' = fs
  /\ pc' = "l29"
  /\ exitCode' = -1
  /\ out' = <<>>
  /\ UNCHANGED <<fs, cwd, args, stack>>

Next ==
  \/ CheckCmd
  \/ CheckTemplate
  \/ CheckTarget
  \/ CopyAgents
  \/ CheckWithSkills
  \/ CheckSkillsSource
  \/ CheckSkillsTarget
  \/ CallCopyDir
  \/ CopyDirEntry
  \/ CopyDirReturn
  \/ ReportSkills
  \/ Rerun

Spec == Init /\ [][Next]_vars

----------------------------------------------------------------------------
(* Sanity                                                                  *)

\* Every node but the root has a directory for parent.
WellFormed ==
  \A p \in DOMAIN fs : p # <<>> => Parent(p) \in DOMAIN fs /\ fs[Parent(p)] = "dir"

----------------------------------------------------------------------------
(* The run as the caller sees it                                           *)

ForcePassed == Includes(args, "--force")
SkillsPassed == Includes(args, "--with-skills")

Exited == pc = "exit"

TemplateAtStart == existsSync(fsStart, templateAgents)
ConfigAtStart == existsSync(fsStart, targetAgents)
SourceAtStart == existsSync(fsStart, skillsSourceDir)
TargetAtStart == existsSync(fsStart, skillsTargetDir)

ConfigUnchanged == Subtree(fs, targetAgents) = Subtree(fsStart, targetAgents)
TargetUnchanged == Subtree(fs, skillsTargetDir) = Subtree(fsStart, skillsTargetDir)

ConfigEqualsTemplate ==
  /\ existsSync(fs, targetAgents)
  /\ fs[targetAgents] = fsStart[templateAgents]

ReportedSkills == Includes(out, "Created skills/")
ReportedConfig == Includes(out, "Created AGENTS.md")

\* C1: in an init run where the template exists, ./AGENTS.md exists and
\* --force is not passed, the script never gets past the guard of line 39
\* (the skills step is not attempted), ./AGENTS.md and ./skills stay as they
\* were, and the exit code is not 0.
C1_ConfigGuard ==
  (cmd = "init" /\ TemplateAtStart /\ ConfigAtStart /\ ~ForcePassed)
    => /\ pc \in {"l29", "l34", "l39", "exit"}
       /\ ConfigUnchanged
       /\ TargetUnchanged
       /\ Exited => exitCode # 0

C1_Witness ==
  /\ Exited /\ run = 1 /\ cmd = "init" /\ SkillsPassed /\ ~ForcePassed
  /\ TemplateAtStart /\ ConfigAtStart /\ SourceAtStart /\ ~TargetAtStart
  /\ fs[targetAgents] # fs[templateAgents]

\* C2: when init --with-skills reports "Created skills/" and exits 0, the
\* source tree existing and ./skills being absent at the start, ./skills
\* holds the same relative paths as the source tree with the same nodes,
\* whatever their kind.
C2_Mirror ==
  (Exited /\ exitCode = 0 /\ ReportedSkills /\ cmd = "init" /\ SkillsPassed
     /\ SourceAtStart /\ ~TargetAtStart)
    => Subtree(fs, skillsTargetDir) = Subtree(fsStart, skillsSourceDir)

\* C3: in an init --with-skills run without --force whose config copy
\* succeeded, with the source tree and ./skills both present at the start,
\* the exit code is 0 and ./skills is unchanged.
C3_SoftSkip ==
  (cmd = "init" /\ SkillsPassed /\ ~ForcePassed /\ ReportedConfig
     /\ SourceAtStart /\ TargetAtStart)
    => /\ TargetUnchanged
       /\ Exited => exitCode = 0

C3_Witness ==
  /\ Exited /\ run = 1 /\ cmd = "init" /\ SkillsPassed /\ ~ForcePassed
  /\ ReportedConfig /\ SourceAtStart /\ TargetAtStart
  /\ Subtree(fs, skillsTargetDir) # Subtree(fs, skillsSourceDir)
  /\ Includes(out, "Skipped skills/ (already exists). Use --force to overwrite.")

\* C4: after a successful init --with-skills --force run with the source
\* tree and ./skills both present at the start, ./skills is an exact mirror
\* of the source tree as it then is (so nothing that is not in the source is
\* left).
C4_ForceMirror ==
  (Exited /\ exitCode = 0 /\ ReportedSkills /\ cmd = "init" /\ SkillsPassed
     /\ ForcePassed /\ SourceAtStart /\ TargetAtStart)
    => Subtree(fs, skillsTargetDir) = Subtree(fs, skillsSourceDir)

C6_ExitCode ==
  Exited =>
    /\ exitCode \in {0, 1}
    /\ exitCode = 1 <=>
         \/ cmd # "init"
         \/ ~TemplateAtStart
         \/ ConfigAtStart /\ ~ForcePassed
         \/ SkillsPassed /\ ~SourceAtStart
         \/ Includes(out, "Uncaught")

C6_Witness ==
  /\ Exited /\ exitCode = 0 /\ SkillsPassed /\ TargetAtStart /\ ~ForcePassed
  /\ ~ReportedSkills

\* C7: no run changes the template or anything in the source skills tree.
C7_SourceReadOnly ==
  /\ Subtree(fs, templateAgents) = Subtree(fsStart, templateAgents)
  /\ Subtree(fs, skillsSourceDir) = Subtree(fsStart, skillsSourceDir)

\* C8: a second init run without --force changes neither ./AGENTS.md nor
\* ./skills.
C8_Idempotent ==
  (run > 1 /\ cmd = "init" /\ ~ForcePassed)
    => ConfigUnchanged /\ TargetUnchanged

C8_Witness ==
  /\ Exited /\ run = 2 /\ cmd = "init" /\ SkillsPassed /\ ~ForcePassed
  /\ existsSync(fs, targetAgents) /\ existsSync(fs, skillsTargetDir)
  /\ Subtree(fs, skillsTargetDir) = Subtree(fs, skillsSourceDir)
  /\ exitCode = 1

\* C9: the config copy is reported as created only if ./AGENTS.md was absent
\* at the start of the run (a replaced file is reported as overwritten).
C9_ReportDistinct == ReportedConfig => ~ConfigAtStart

====
